---- MODULE Spec2Model ----
(***************************************************************************)
(* Model of pyttd.map_parser.MapDataParser (src/pyttd/map_parser.py).      *)
(*                                                                         *)
(* A bytes object is modelled as a record [head, fill, pad]: the bytes of  *)
(* `head` followed by `pad` copies of the byte `fill`.  Every bytes        *)
(* operation of the parser (len, indexing, slicing, find) is defined on    *)
(* that representation, so that streams of 50,000 or 2,000,000 bytes can   *)
(* be handed to the parser with the program's own constants unchanged.     *)
(*                                                                         *)
(* The parser object's fields are shared state; every parse call has a     *)
(* frame holding the locals of parse_map_data, _parse_savegame_data,       *)
(* _parse_chunks and _parse_vehicles_chunk and the position of the call.   *)
(***************************************************************************)
EXTENDS Integers, Sequences, FiniteSets, TLC

VARIABLES
    map_width,      \* self.map_width
    map_height,     \* self.map_height
    vehicles,       \* self.vehicles
    stations,       \* self.stations
    industries,     \* self.industries
    companies,      \* self.companies
    frame,          \* per caller: the locals and position of its parse call
    log,            \* history: <<input, result>> of every returned call, in order
    pool,           \* the inputs callers may pass
    budget          \* number of parse calls still to be made

vars == <<map_width, map_height, vehicles, stations, industries, companies,
          frame, log, pool, budget>>

parser == <<map_width, map_height, vehicles, stations, industries, companies>>

(***************************************************************************)
(* Bounds of the model.                                                    *)
(***************************************************************************)
MaxCalls == 2
LongCalls == 1
LiveCalls == 1
ConcCalls == 2
NoiseLen == 50012
HugeLen == 2000004

Threads == {1, 2}

(***************************************************************************)
(* Bytes.                                                                  *)
(***************************************************************************)
Min(a, b) == IF a < b THEN a ELSE b
Max(a, b) == IF a > b THEN a ELSE b

Rep(b, n) == [i \in 1..n |-> b]

Bytes(head, fill, pad) == [head |-> head, fill |-> fill, pad |-> pad]

Empty == Bytes(<<>>, 0, 0)

\* len(d)
BLen(d) == Len(d.head) + d.pad

\* d[i], 0-based, for 0 <= i < len(d)
At(d, i) == IF i < Len(d.head) THEN d.head[i + 1] ELSE d.fill

\* d[a:b] with Python's clamping of both ends
Slice(d, a, b) ==
    LET n  == BLen(d)
        lo == Min(Max(a, 0), n)
        hi == Max(lo, Min(b, n))
        hl == Len(d.head)
    IN  Bytes(IF lo < hl THEN SubSeq(d.head, lo + 1, Min(hi, hl)) ELSE <<>>,
              d.fill,
              IF hi > hl THEN hi - Max(lo, hl) ELSE 0)

\* d[a:]
From(d, a) == Slice(d, a, BLen(d))

\* the bytes of d as a plain sequence (short streams only)
Plain(d) == [i \in 1..BLen(d) |-> At(d, i - 1)]

\* two bytes objects hold the same bytes
SameBytes(x, y) ==
    /\ BLen(x) = BLen(y)
    /\ \A i \in 0..(BLen(x) - 1) : At(x, i) = At(y, i)

\* d[i:i+4] == pat, pat a sequence of 4 bytes
MatchAt(d, i, pat) ==
    /\ i + 4 <= BLen(d)
    /\ \A k \in 0..3 : At(d, i + k) = pat[k + 1]

\* d.find(pat): the smallest offset at which pat occurs, -1 if none.  Every
\* window that starts at or after the end of `head` holds the same four fill
\* bytes as the window starting there, so the first occurrence is at most
\* Len(d.head).
Find(d, pat) ==
    LET cand == {i \in 0..Min(BLen(d) - 4, Len(d.head)) : MatchAt(d, i, pat)}
    IN  IF cand = {} THEN -1
        ELSE CHOOSE i \in cand : \A j \in cand : i <= j

\* struct.unpack('<I', d[i:i+4])[0]
LE32(d, i) ==
    At(d, i) + 256 * At(d, i + 1) + 65536 * At(d, i + 2) + 16777216 * At(d, i + 3)

\* struct.unpack('>I', d[i:i+4])[0]
BE32(d, i) ==
    16777216 * At(d, i) + 65536 * At(d, i + 1) + 256 * At(d, i + 2) + At(d, i + 3)

\* struct.unpack of d[a:b] raises unless the slice holds exactly 4 bytes
UnpackRaises(d, a, b) == BLen(Slice(d, a, b)) # 4

(***************************************************************************)
(* 4-byte tags.                                                            *)
(***************************************************************************)
VEHS == <<86, 69, 72, 83>>
STNS == <<83, 84, 78, 83>>
INDS == <<73, 78, 68, 83>>
PLYR == <<80, 76, 89, 82>>
INDY == <<73, 78, 68, 89>>
MAP_ == <<77, 65, 80, 32>>

\* the envelope tags, as the big-endian integers the code compares with
OTTX == 1330926680   \* 0x4F545458
OTTZ == 1330926682   \* 0x4F54545A
OTTN == 1330926670   \* 0x4F54544E
OTTD == 1330926660   \* 0x4F545444

HeaderSize == 8
MaxChunkSize == 1000000
WalkGuard == 50000
VehicleStride == 32

(***************************************************************************)
(* Compression Envelope Resolver: _decompress_map_data.                    *)
(* A call of the resolver either returns bytes or raises.                  *)
(***************************************************************************)
Returned(v) == [raised |-> FALSE, value |-> v, exc |-> "none"]
Raised(e)   == [raised |-> TRUE, value |-> Empty, exc |-> e]

\* lzma.decompress and zlib.decompress are library code.  Each is modelled as
\* a deterministic partial decoder of a stored container: a payload that
\* starts with the codec's first magic byte (0xFD for xz, 0x78 for zlib)
\* decodes to the bytes after it, every other payload is rejected.
LzmaDecompress(p) ==
    IF BLen(p) >= 1 /\ At(p, 0) = 253 THEN Returned(From(p, 1))
    ELSE Raised("LZMAError")

ZlibDecompress(p) ==
    IF BLen(p) >= 1 /\ At(p, 0) = 120 THEN Returned(From(p, 1))
    ELSE Raised("zlib.error")

\* len(data) < 8
TooShortTagOnly(d) == BLen(d) < 4
TooShort(d) == BLen(d) < HeaderSize

\* compressed_payload = data[8:]
PayloadNoSubHeader(d) == From(d, 4)
Payload(d) == From(d, HeaderSize)

\* _decompress_map_data(data): the except clause logs and re-raises
DecompressMapDataRejectUnknown(d) ==
    IF TooShort(d) THEN Raised("ValueError")
    ELSE LET tag == BE32(d, 0)
             compressed_payload == Payload(d)
         IN  CASE tag = OTTX -> LzmaDecompress(compressed_payload)
               [] tag = OTTZ -> ZlibDecompress(compressed_payload)
               [] tag = OTTN -> Returned(compressed_payload)
               [] tag = OTTD -> Raised("NotImplementedError")
               [] OTHER      -> Raised("ValueError")
DecompressMapData(d) ==
    IF TooShort(d) THEN Raised("ValueError")
    ELSE LET tag == BE32(d, 0)
             compressed_payload == Payload(d)
         IN  CASE tag = OTTX -> LzmaDecompress(compressed_payload)
               [] tag = OTTZ -> ZlibDecompress(compressed_payload)
               [] tag = OTTN -> Returned(compressed_payload)
               [] tag = OTTD -> Raised("NotImplementedError")
               [] OTHER      -> LzmaDecompress(compressed_payload)

(***************************************************************************)
(* _parse_savegame_data: the offset at which the chunk walk starts.        *)
(***************************************************************************)
chunk_patterns == <<VEHS, STNS, INDS, PLYR, INDY>>

RECURSIVE EarliestFrom(_, _, _)
EarliestFrom(d, k, earliest_chunk) ==
    IF k > Len(chunk_patterns) THEN earliest_chunk
    ELSE LET pos == Find(d, chunk_patterns[k])
         IN  EarliestFrom(d, k + 1,
                 IF pos # -1 /\ pos < earliest_chunk THEN pos ELSE earliest_chunk)

EarliestChunk(d) == EarliestFrom(d, 1, BLen(d))

StartOffsetFromZero(d) == 0
StartOffset(d) ==
    LET earliest_chunk == EarliestChunk(d)
    IN  IF earliest_chunk < BLen(d) THEN earliest_chunk ELSE 0

(***************************************************************************)
(* Chunk Stream Scanner: one iteration of the loop of _parse_chunks.       *)
(***************************************************************************)
\* chunk_tag.decode('ascii') succeeds
IsAsciiFirstByte(chunk_tag) == chunk_tag[1] < 128
IsAscii(chunk_tag) == \A k \in 1..Len(chunk_tag) : chunk_tag[k] < 128

Length(enc, chunk_size, data_offset) ==
    [enc |-> enc, chunk_size |-> chunk_size, data_offset |-> data_offset]

\* chunk_type == 0xFF: the 4 bytes after the type byte, little-endian
ExtendedLength(d, current_offset) ==
    Length("Extended", LE32(d, current_offset + 5), current_offset + 9)

\* chunk_type & 0x80: bytes are read from current_offset + 5 on, each gives
\* its low 7 bits, shifted by 7 * i, until a byte without the high bit or the
\* end of the data
RECURSIVE GammaFrom(_, _, _, _)
GammaFrom(d, pos, i, chunk_size) ==
    IF pos < BLen(d)
    THEN LET byte == At(d, pos)
             size == chunk_size + (byte % 128) * (2 ^ (7 * i))
         IN  IF byte >= 128 THEN GammaFrom(d, pos + 1, i + 1, size)
             ELSE Length("Gamma", size, pos + 1)
    ELSE Length("Gamma", chunk_size, pos)

GammaLength(d, current_offset) == GammaFrom(d, current_offset + 5, 0, 0)

\* otherwise: the type byte is the length
ByteLength(d, current_offset) ==
    Length("Byte", At(d, current_offset + 4), current_offset + 5)

DecodeLength(d, current_offset) ==
    LET chunk_type == At(d, current_offset + 4)
    IN  IF chunk_type = 255 THEN ExtendedLength(d, current_offset)
        ELSE IF chunk_type >= 128 THEN GammaLength(d, current_offset)
        ELSE ByteLength(d, current_offset)

\* current_offset = data_offset + chunk_size
NextOffsetNoHeader(data_offset, chunk_size) == data_offset - 5 + chunk_size
NextOffset(data_offset, chunk_size) == data_offset + chunk_size

\* the condition of the while loop
LoopCond(d, current_offset) == current_offset < BLen(d) - 8

\* not (data_offset + chunk_size > len(data) or chunk_size > 1000000)
ChunkInBoundsNoCap(d, data_offset, chunk_size) ==
    ~(data_offset + chunk_size > BLen(d))
ChunkInBounds(d, data_offset, chunk_size) ==
    ~(data_offset + chunk_size > BLen(d) \/ chunk_size > MaxChunkSize)

Outcome(kind, chunk_tag, len) == [kind |-> kind, chunk_tag |-> chunk_tag, len |-> len]

NoLength == Length("none", 0, 0)

\* chunk_tag = data[current_offset:current_offset + 4]
Tag(d, current_offset) ==
    IF current_offset + 4 <= BLen(d)
    THEN <<At(d, current_offset), At(d, current_offset + 1),
           At(d, current_offset + 2), At(d, current_offset + 3)>>
    ELSE Plain(Slice(d, current_offset, current_offset + 4))

\* What the body of the loop does at current_offset: "break", "skip" (the
\* two `continue` paths), "raise" (an exception reaches the except clause of
\* the loop body) or "accept" (the chunk is handed to _parse_chunk).
Iteration(d, current_offset) ==
    LET chunk_tag == Tag(d, current_offset)
    IN  IF Len(chunk_tag) < 4 \/ chunk_tag = <<0, 0, 0, 0>>
        THEN Outcome("break", chunk_tag, NoLength)
        ELSE IF ~IsAscii(chunk_tag)
        THEN Outcome("skip", chunk_tag, NoLength)
        ELSE IF current_offset + 4 >= BLen(d)
        THEN Outcome("break", chunk_tag, NoLength)
        ELSE IF At(d, current_offset + 4) = 255 /\ current_offset + 8 >= BLen(d)
        THEN Outcome("break", chunk_tag, NoLength)
        ELSE IF At(d, current_offset + 4) = 255
                /\ UnpackRaises(d, current_offset + 5, current_offset + 9)
        THEN Outcome("raise", chunk_tag, NoLength)
        ELSE LET len == DecodeLength(d, current_offset)
             IN  IF ChunkInBounds(d, len.data_offset, len.chunk_size)
                 THEN Outcome("accept", chunk_tag, len)
                 ELSE Outcome("skip", chunk_tag, len)

(***************************************************************************)
(* Chunk Content Extractors.                                               *)
(***************************************************************************)
\* _parse_chunk: the extractor a tag is dispatched to
ParseChunkMapByDefault(tag) ==
    IF tag = VEHS THEN "vehicles"
    ELSE IF tag = STNS THEN "stations"
    ELSE IF tag = INDS THEN "industries"
    ELSE IF tag = PLYR THEN "companies"
    ELSE "map"
ParseChunk(tag) ==
    IF tag = VEHS THEN "vehicles"
    ELSE IF tag = STNS THEN "stations"
    ELSE IF tag = INDS THEN "industries"
    ELSE IF tag = PLYR THEN "companies"
    ELSE IF tag = MAP_ THEN "map"
    ELSE "unhandled"

ParsedVehicle(vehicle_id, vehicle_type, company_id) ==
    [vehicle_id |-> vehicle_id, vehicle_type |-> vehicle_type,
     company_id |-> company_id, engine_type |-> 0, x |-> 0, y |-> 0, z |-> 0,
     speed |-> 0, profit_this_year |-> 0, profit_last_year |-> 0,
     running_cost |-> 0, build_year |-> 1950, reliability |-> 100,
     cargo_type |-> 0, cargo_capacity |-> 0, cargo_count |-> 0]

\* vtype = data[offset] % 6
VTypeMod4(chunk_data, offset) == At(chunk_data, offset) % 4
VType(chunk_data, offset) == At(chunk_data, offset) % 6

\* company = data[offset + 1] % 16
Company(chunk_data, offset) == At(chunk_data, offset + 1) % 16

\* the condition of the loop of _parse_vehicles_chunk
VehLoopCond(chunk_data, offset) == offset + VehicleStride < BLen(chunk_data)

\* _parse_map_chunk: the dimensions after a MAP chunk with body chunk_data
MapChunkStrict(chunk_data, width, height) ==
    IF BLen(chunk_data) > 8
    THEN <<LE32(chunk_data, 0), LE32(chunk_data, 4)>>
    ELSE <<width, height>>
MapChunk(chunk_data, width, height) ==
    IF BLen(chunk_data) >= 8
    THEN <<LE32(chunk_data, 0), LE32(chunk_data, 4)>>
    ELSE <<width, height>>

(***************************************************************************)
(* Fallback estimator: _parse_basic_data.  No code path calls it.          *)
(***************************************************************************)
\* the number of i in range(0, len(data) - 4, 4) with
\* unpack('<I', data[i:i+4]) < 16 and i + 16 < len(data)
PatternCount(d) ==
    Cardinality({i \in 0..(BLen(d) - 5) :
                    /\ i % 4 = 0
                    /\ LE32(d, i) < 16
                    /\ i + 16 < BLen(d)})

EstimatedVehicles(d) == Min(PatternCount(d) \div 10, 200)

(***************************************************************************)
(* Inputs.                                                                 *)
(***************************************************************************)
Ottn == <<79, 84, 84, 78>>
Ottx == <<79, 84, 84, 88>>
Ottz == <<79, 84, 84, 90>>
Ottd == <<79, 84, 84, 68>>
Zzzz == <<90, 90, 90, 90>>
Sub0 == <<0, 0, 0, 0>>
Sub1 == <<9, 200, 7, 255>>

\* a VEHS chunk, Byte length 40: one stride (0, 3, 0, ...) and 8 more bytes
Vehs40 == VEHS \o <<40, 0, 3>>
\* a VEHS chunk, Byte length 100, strides (7, 19, ..), (2, 5, ..), (11, 250, ..)
Vehs100 == VEHS \o <<100, 7, 19>> \o Rep(0, 30) \o <<2, 5>> \o Rep(0, 30) \o <<11, 250>>

InTooShort0   == Empty
InTooShort7   == Bytes(Ottn \o <<0, 0, 0>>, 0, 0)
InOttd        == Bytes(Ottd \o Sub0 \o Vehs40, 0, 38)
InOttxBad     == Bytes(Ottx \o Sub0 \o <<1, 2, 3>>, 0, 0)
InOttxOk      == Bytes(Ottx \o Sub0 \o <<253>> \o Vehs40, 0, 38)
InOttzBad     == Bytes(Ottz \o Sub0 \o <<253>> \o Vehs40, 0, 38)
InOttzOk      == Bytes(Ottz \o Sub1 \o <<120>> \o Vehs100, 0, 40)
InUnknownBad  == Bytes(Zzzz \o Sub0 \o <<120, 1>>, 0, 0)
InUnknownOk   == Bytes(Zzzz \o Sub0 \o <<253>> \o Vehs40, 0, 38)
\* the end-to-end example: OTTN, VEHS, type byte 40, stride (0, 3, ...), padding
InVehs40      == Bytes(Ottn \o Sub0 \o Vehs40, 0, 38)
InVehs40Sub   == Bytes(Ottn \o Sub1 \o Vehs40, 0, 38)
InVehs40Pad   == Bytes(Ottn \o Sub0 \o Vehs40, 0, 60)
InVehs100     == Bytes(Ottn \o Sub1 \o Vehs100, 0, 34)
InVehs100Pad  == Bytes(Ottn \o Sub0 \o Vehs100, 0, 50)
\* well-formed Byte-length chunks that end exactly at the end of the stream
InTiny3       == Bytes(Ottn \o Sub0 \o <<65, 66, 67, 68, 3, 120, 121, 122>>, 0, 0)
InTiny4       == Bytes(Ottn \o Sub0 \o <<65, 66, 67, 68, 4, 120, 121, 122, 123>>, 0, 0)
InVehsTiny    == Bytes(Ottn \o Sub0 \o VEHS \o <<0>>, 0, 0)
\* a chunk that claims more bytes than the stream holds
InOutOfBounds == Bytes(Ottn \o Sub0 \o VEHS \o <<100>>, 1, 10)
\* streams without any marker in which no chunk is accepted
InZeros       == Bytes(Ottn \o Sub0, 0, 64)
InNoMarker    == Bytes(Ottn \o Sub0 \o <<128>>, 0, 240)
\* MAP, Gamma and Extended chunks
InMap         == Bytes(Ottn \o Sub0 \o MAP_ \o <<8, 64, 0, 0, 0, 32>>, 0, 11)
InGamma       == Bytes(Ottn \o Sub0 \o STNS \o <<129, 5, 1, 2, 3, 4, 5>>, 0, 8)
InExtended    == Bytes(Ottn \o Sub0 \o INDS \o <<255, 4, 0, 0, 0, 9, 9, 9, 9>> \o PLYR \o <<2, 1, 1>>, 0, 9)
InGammaTwo    == Bytes(Ottn \o Sub0 \o STNS \o <<129, 129, 1>>, 7, 140)
InGammaLoose  == Bytes(Ottn \o Sub0 \o STNS \o <<128, 128, 0>> \o Vehs40, 0, 38)
InMapShort    == Bytes(Ottn \o Sub0 \o MAP_ \o <<4, 1, 2, 3, 4>>, 0, 9)
\* a MAP chunk before the first marker, and one after a non-ASCII byte
InMapFirst    == Bytes(Ottn \o Sub0 \o MAP_ \o <<8, 64, 0, 0, 0, 32, 0, 0, 0>> \o Vehs40, 0, 38)
InNonAsciiMap == Bytes(Ottn \o Sub0 \o <<200>> \o MAP_ \o <<8, 5, 0, 0, 0, 6>>, 0, 12)
\* two VEHS chunks
InTwoVehs     == Bytes(Ottn \o Sub0 \o Vehs40 \o Rep(0, 38) \o VEHS \o <<40, 1, 4>>, 0, 38)
\* chunks with empty bodies
InEmptyChunks == Bytes(Ottn \o Sub0 \o STNS \o <<0>> \o PLYR \o <<0>> \o VEHS \o <<0>>, 0, 12)
\* VEHS bodies of exactly one and exactly two strides, followed by padding
InVehs32      == Bytes(Ottn \o Sub0 \o VEHS \o <<32, 0, 3>>, 0, 50)
InVehs64      == Bytes(Ottn \o Sub0 \o VEHS \o <<64, 1, 1>> \o Rep(0, 30) \o <<2, 2>>, 0, 50)
\* a Gamma length whose continuation bytes run to the end of the stream
InGammaTrunc  == Bytes(Ottn \o Sub0 \o STNS \o <<128>>, 128, 4)
\* an all-zero tag between two chunks
InZeroTag     == Bytes(Ottn \o Sub0 \o STNS \o <<0, 0, 0, 0, 0>> \o Vehs40, 0, 38)
\* three bytes of junk, then a PLYR chunk and a VEHS chunk
InJunkFirst   == Bytes(Ottn \o Sub0 \o <<1, 2, 3>> \o PLYR \o <<0>> \o Vehs40, 0, 38)
\* a non-ASCII byte inside the first tags, then a MAP chunk
InNonAscii2   == Bytes(Ottn \o Sub0 \o <<65, 200, 66, 67, 0>> \o MAP_ \o <<8, 5, 0, 0, 0, 6>>, 0, 12)
\* a chunk with an unrecognised tag and a body of 8 bytes
InUnhandled   == Bytes(Ottn \o Sub0 \o <<88, 89, 90, 87, 8, 7, 0, 0, 0, 9>>, 0, 12)
\* a MAP chunk before the first marker and another one after the VEHS chunk
InMapTwice    == Bytes(Ottn \o Sub0 \o MAP_ \o <<8, 64, 0, 0, 0, 32, 0, 0, 0>> \o Vehs40
                           \o Rep(0, 38) \o MAP_ \o <<8, 5, 0, 0, 0, 6>>, 0, 12)
\* noise: NoiseLen bytes that are not ASCII
InNoise       == Bytes(Ottn \o Sub0, 128, NoiseLen)
\* an Extended chunk claiming 2,000,000 bytes in a stream that holds them
InHuge        == Bytes(Ottn \o Sub0 \o VEHS \o <<255, 128, 132, 30, 0>>, 0, HugeLen)

ShortInputs ==
    {InTooShort0, InTooShort7, InOttd, InOttxBad, InOttxOk, InOttzBad, InOttzOk,
     InUnknownBad, InUnknownOk, InVehs40, InVehs40Sub, InVehs40Pad, InVehs100,
     InVehs100Pad, InTiny3, InTiny4, InVehsTiny, InOutOfBounds, InZeros,
     InNoMarker, InMap, InGamma, InExtended, InEmptyChunks, InGammaTwo,
     InGammaLoose, InMapShort, InMapFirst, InNonAsciiMap, InTwoVehs,
     InVehs32, InVehs64, InGammaTrunc, InZeroTag, InJunkFirst, InNonAscii2,
     InUnhandled, InMapTwice}

LongInputs == {InNoise, InHuge, InOutOfBounds, InVehs40, InTooShort7}

\* the blobs of callers that share one parser
ConcInputs == {InVehs40, InTwoVehs, InMap, InGamma, InOttxBad, InMapFirst}

Inputs(p) ==
    IF p = "long" THEN LongInputs
    ELSE IF p = "conc" THEN ConcInputs
    ELSE ShortInputs

(***************************************************************************)
(* The parse call.                                                         *)
(***************************************************************************)
\* the dict built at the end of parse_map_data
Snapshot(w, h, vs, ss, is, cs) ==
    [map_width |-> w, map_height |-> h,
     vehicles |-> vs, stations |-> ss, industries |-> is, companies |-> cs,
     total_vehicles |-> Len(vs), total_stations |-> Len(ss),
     total_industries |-> Len(is), total_companies |-> Len(cs)]

\* the empty dict
EmptyResult == [k \in {} |-> 0]

\* how a call ended
Return(value) == [kind |-> "returned", value |-> value]
Raise(e)      == [kind |-> "raised", value |-> EmptyResult, exc |-> e]
Pending       == [kind |-> "pending", value |-> EmptyResult]

\* parse_map_data, `except Exception as e`: log the error, return {}
ReturnDefaults(e) == Return(Snapshot(0, 0, <<>>, <<>>, <<>>, <<>>))
Propagate(e)   == Raise(e)
OnException(e) == Return(EmptyResult)

NewFrame(pc) ==
    [pc |-> pc,
     compressed_data |-> Empty,   \* the argument of parse_map_data
     data |-> Empty,              \* the decompressed stream
     offset |-> 0,                \* _parse_chunks: the start of the walk
     current_offset |-> 0,
     chunks_found |-> 0,
     data_offset |-> 0,           \* of the chunk being extracted
     chunk_size |-> 0,
     chunk_data |-> Empty,        \* _parse_vehicles_chunk: data
     veh_offset |-> 0,            \* _parse_vehicles_chunk: offset
     vehicle_id |-> 0,
     outcome |-> Pending,
     \* history of this call
     exc |-> "none",              \* what _decompress_map_data raised
     invoked |-> {},              \* the components that have run
     skips |-> 0,                 \* single-byte steps since the last accepted chunk
     chunks |-> <<>>]             \* the chunks handed to _parse_chunk

Init0(p, n) ==
    /\ map_width = 0
    /\ map_height = 0
    /\ vehicles = <<>>
    /\ stations = <<>>
    /\ industries = <<>>
    /\ companies = <<>>
    /\ frame = [t \in Threads |-> NewFrame(IF t = 1 THEN "idle" ELSE "off")]
    /\ log = <<>>
    /\ pool = p
    /\ budget = n

Init == Init0("short", MaxCalls)

InitLong == Init0("long", LongCalls)

InitLive == Init0("short", LiveCalls)

\* one parser object, every caller ready to call parse_map_data on it
InitConc ==
    /\ map_width = 0
    /\ map_height = 0
    /\ vehicles = <<>>
    /\ stations = <<>>
    /\ industries = <<>>
    /\ companies = <<>>
    /\ frame = [t \in Threads |-> NewFrame("idle")]
    /\ log = <<>>
    /\ pool = "conc"
    /\ budget = ConcCalls

\* parse_map_data is called with compressed_data = b: the envelope is resolved
\* and, unless that raises, the start of the chunk walk is located.
Call(t, b) ==
    /\ frame[t].pc = "idle"
    /\ budget > 0
    /\ budget' = budget - 1
    /\ LET r == DecompressMapData(b)
           f == [NewFrame("idle") EXCEPT !.compressed_data = b,
                                         !.invoked = {"resolver"}]
       IN  IF r.raised
           THEN /\ frame' = [frame EXCEPT ![t] = [f EXCEPT !.outcome = OnException(r.exc),
                                                           !.exc = r.exc]]
                /\ log' = Append(log, [input |-> b, outcome |-> OnException(r.exc)])
           ELSE /\ frame' = [frame EXCEPT ![t] =
                       [f EXCEPT !.pc = "scan",
                                 !.data = r.value,
                                 !.offset = StartOffset(r.value),
                                 !.current_offset = StartOffset(r.value),
                                 !.invoked = {"resolver", "scanner"}]]
                /\ log' = log
    /\ UNCHANGED <<parser, pool>>

ChunkRecord(f, it) ==
    [tag |-> it.chunk_tag, enc |-> it.len.enc,
     body_offset |-> it.len.data_offset, body_length |-> it.len.chunk_size,
     at |-> f.current_offset,
     body |-> Slice(f.data, it.len.data_offset, it.len.data_offset + it.len.chunk_size)]

\* The body of the loop of _parse_chunks, with _parse_chunk and every
\* extractor but the vehicle loop, run in frame f with map dimensions w, h:
\* the frame and the dimensions after it.
LoopBody(f, w, h) ==
    LET it == Iteration(f.data, f.current_offset)
        chunk_data == Slice(f.data, it.len.data_offset,
                            it.len.data_offset + it.len.chunk_size)
        accepted == [f EXCEPT !.invoked = @ \cup {"extractor"},
                              !.skips = 0,
                              !.chunks = Append(@, ChunkRecord(f, it)),
                              !.data_offset = it.len.data_offset,
                              !.chunk_size = it.len.chunk_size]
        advanced == [accepted EXCEPT
                        !.chunks_found = @ + 1,
                        !.current_offset = NextOffset(it.len.data_offset,
                                                      it.len.chunk_size)]
        After(g, width, height) == [frame |-> g, map_width |-> width, map_height |-> height]
    IN  IF it.kind = "break"
        THEN After([f EXCEPT !.pc = "ret"], w, h)
        ELSE IF it.kind = "skip"
        THEN After([f EXCEPT !.current_offset = @ + 1, !.skips = @ + 1], w, h)
        ELSE IF it.kind = "raise"
        THEN \* except Exception: step one byte; give up past the walk guard
             After([f EXCEPT !.current_offset = @ + 1,
                             !.skips = @ + 1,
                             !.pc = IF f.current_offset + 1 - f.offset > WalkGuard
                                    THEN "ret" ELSE "scan"], w, h)
        ELSE IF ParseChunk(it.chunk_tag) = "vehicles"
        THEN \* _parse_vehicles_chunk(chunk_data) starts
             After([accepted EXCEPT !.pc = "vehs",
                                    !.chunk_data = chunk_data,
                                    !.veh_offset = 0,
                                    !.vehicle_id = 0], w, h)
        ELSE IF ParseChunk(it.chunk_tag) = "map"
        THEN After(advanced, MapChunk(chunk_data, w, h)[1], MapChunk(chunk_data, w, h)[2])
        ELSE \* STNS, INDS, PLYR: placeholders; any other tag: unhandled
             After(advanced, w, h)

\* one iteration of the loop of _parse_chunks
ScanStep(t) ==
    /\ frame[t].pc = "scan"
    /\ LoopCond(frame[t].data, frame[t].current_offset)
    /\ \E after \in {LoopBody(frame[t], map_width, map_height)} :
           /\ frame' = [frame EXCEPT ![t] = after.frame]
           /\ map_width' = after.map_width
           /\ map_height' = after.map_height
    /\ UNCHANGED <<vehicles, stations, industries, companies, log, pool, budget>>

\* the loop of _parse_chunks ends because its condition is false
ScanExit(t) ==
    /\ frame[t].pc = "scan"
    /\ ~LoopCond(frame[t].data, frame[t].current_offset)
    /\ frame' = [frame EXCEPT ![t].pc = "ret"]
    /\ UNCHANGED <<parser, log, pool, budget>>

\* one iteration of the loop of _parse_vehicles_chunk
VehStep(t) ==
    LET f == frame[t]
        vtype == VType(f.chunk_data, f.veh_offset)
        company == Company(f.chunk_data, f.veh_offset)
    IN  /\ f.pc = "vehs"
        /\ VehLoopCond(f.chunk_data, f.veh_offset)
        /\ IF company >= 16
           THEN /\ frame' = [frame EXCEPT ![t].veh_offset = @ + 1]
                /\ vehicles' = vehicles
           ELSE /\ vehicles' = Append(vehicles, ParsedVehicle(f.vehicle_id, vtype, company))
                /\ frame' = [frame EXCEPT ![t].vehicle_id = @ + 1,
                                          ![t].veh_offset = @ + VehicleStride]
        /\ UNCHANGED <<map_width, map_height, stations, industries, companies,
                       log, pool, budget>>

\* _parse_vehicles_chunk returns; _parse_chunks counts the chunk and moves on
VehExit(t) ==
    LET f == frame[t]
    IN  /\ f.pc = "vehs"
        /\ ~VehLoopCond(f.chunk_data, f.veh_offset)
        /\ frame' = [frame EXCEPT ![t].pc = "scan",
                                  ![t].chunks_found = @ + 1,
                                  ![t].current_offset = NextOffset(f.data_offset, f.chunk_size)]
        /\ UNCHANGED <<parser, log, pool, budget>>

\* parse_map_data builds the result from the parser's fields and returns it
Finish(t) ==
    LET out == Return(Snapshot(map_width, map_height, vehicles, stations,
                               industries, companies))
    IN  /\ frame[t].pc = "ret"
        /\ frame' = [frame EXCEPT ![t].pc = "idle", ![t].outcome = out]
        /\ log' = Append(log, [input |-> frame[t].compressed_data, outcome |-> out])
        /\ UNCHANGED <<parser, pool, budget>>

Next ==
    \/ \E t \in Threads : \E b \in Inputs(pool) : Call(t, b)
    \/ \E t \in Threads : ScanStep(t)
    \/ \E t \in Threads : ScanExit(t)
    \/ \E t \in Threads : VehStep(t)
    \/ \E t \in Threads : VehExit(t)
    \/ \E t \in Threads : Finish(t)

Spec == Init /\ [][Next]_vars

SpecLong == InitLong /\ [][Next]_vars

\* callers on several threads share the parser; their calls interleave
SpecConc == InitConc /\ [][Next]_vars

\* a parse call, once started, runs to its return: it has no suspension point
Run ==
    \E t \in Threads :
        ScanStep(t) \/ ScanExit(t) \/ VehStep(t) \/ VehExit(t) \/ Finish(t)

FairSpec == InitLive /\ [][Next]_vars /\ WF_vars(Run)

(***************************************************************************)
(* Properties.                                                             *)
(***************************************************************************)
Called(t) == frame[t].invoked # {}
Done(t) == Called(t) /\ frame[t].pc = "idle"
Running(t) == frame[t].pc \in {"scan", "vehs", "ret"}
Prefix4(d) == Plain(Slice(d, 0, 4))
SnapshotKeys ==
    {"map_width", "map_height", "vehicles", "stations", "industries", "companies",
     "total_vehicles", "total_stations", "total_industries", "total_companies"}

\* C1: two calls in a row with the same input return the same result.
C1_Idempotent ==
    \A i \in 1..(Len(log) - 1) :
        log[i].input = log[i + 1].input => log[i].outcome = log[i + 1].outcome

\* C2: parse_map_data never raises to its caller: every call that has ended
\* returned the empty result or a snapshot with the two dimensions, the four
\* sequences and the four totals.
C2_NeverRaises ==
    /\ \A t \in Threads :
           /\ frame[t].outcome.kind \in {"pending", "returned"}
           /\ Done(t) => /\ frame[t].outcome.kind = "returned"
                         /\ \/ frame[t].outcome.value = EmptyResult
                            \/ DOMAIN frame[t].outcome.value = SnapshotKeys
    /\ \A i \in 1..Len(log) :
           /\ log[i].outcome.kind = "returned"
           /\ \/ log[i].outcome.value = EmptyResult
              \/ DOMAIN log[i].outcome.value = SnapshotKeys

\* a corrupt payload has given the empty result and another call a snapshot
C2_Witness ==
    /\ Len(log) = 2
    /\ log[1].input = InOttxBad /\ log[1].outcome.value = EmptyResult
    /\ log[2].input = InNoMarker /\ DOMAIN log[2].outcome.value = SnapshotKeys

\* C3: an input shorter than 8 bytes fails in the resolver with the format
\* error (ValueError); the scanner, the extractors and the estimator do not run
\* and the call returns the empty result.
C3_TooShort ==
    \A t \in Threads :
        (Called(t) /\ BLen(frame[t].compressed_data) < 8) =>
            /\ frame[t].exc = "ValueError"
            /\ frame[t].invoked = {"resolver"}
            /\ frame[t].chunks = <<>>
            /\ frame[t].pc = "idle"
            /\ frame[t].outcome = Return(EmptyResult)

C3_Witness ==
    \E t \in Threads :
        /\ Done(t)
        /\ frame[t].compressed_data = InTooShort7
        /\ frame[t].outcome = Return(EmptyResult)

\* C4: for an input of at least 8 bytes tagged OTTN the resolver returns the
\* bytes from offset 8 to the end, unchanged, whatever bytes 4..7 are.
C4_OttnPassThrough ==
    \A t \in Threads :
        (/\ Called(t)
         /\ BLen(frame[t].compressed_data) >= 8
         /\ Prefix4(frame[t].compressed_data) = Ottn) =>
            /\ frame[t].exc = "none"
            /\ BLen(frame[t].data) = BLen(frame[t].compressed_data) - 8
            /\ \A i \in 0..(BLen(frame[t].data) - 1) :
                   At(frame[t].data, i) = At(frame[t].compressed_data, i + 8)

\* an OTTN input with a non-zero sub-header has been resolved
C4_Witness ==
    \E t \in Threads :
        /\ frame[t].pc = "scan"
        /\ frame[t].compressed_data = InVehs100
        /\ Plain(Slice(frame[t].compressed_data, 4, 8)) = Sub1
        /\ BLen(frame[t].data) = 105

\* C5: the scan never takes more than 50,000 single-byte skip-and-retry steps
\* without accepting a chunk.
C5_WalkBounded == \A t \in Threads : frame[t].skips <= WalkGuard

\* The progress of the loops (C6): an iteration of the chunk loop stops the scan or
\* strictly increases the scan offset (by 1 on a skip, to body_offset +
\* body_length >= offset + 5 on acceptance), an iteration of the vehicle loop
\* strictly increases its offset, and every call returns.
C6_Advance ==
    \A t \in Threads :
        LET f == frame[t]
            g == frame'[t]
        IN  /\ (f.pc = "scan" /\ g.pc = "scan" /\ g # f) =>
                   /\ g.current_offset > f.current_offset
                   /\ g.chunks = f.chunks => g.current_offset = f.current_offset + 1
                   /\ g.chunks # f.chunks =>
                          /\ g.current_offset = g.data_offset + g.chunk_size
                          /\ g.current_offset >= f.current_offset + 5
            /\ (f.pc = "vehs" /\ g.pc = "scan") =>
                   /\ g.current_offset = f.data_offset + f.chunk_size
                   /\ g.current_offset >= f.current_offset + 5
            /\ (f.pc = "vehs" /\ g.pc = "vehs" /\ g # f) =>
                   g.veh_offset > f.veh_offset

\* C6: every step of a parse call advances as C6_Advance says, and every
\* parse call that has started its scan returns.
C6_Terminates ==
    /\ [][C6_Advance]_vars
    /\ \A t \in Threads : Running(t) ~> Done(t)

\* a call that skipped single bytes and accepted chunks has returned
C6_Witness ==
    \E t \in Threads :
        /\ Done(t)
        /\ frame[t].compressed_data = InEmptyChunks
        /\ Len(frame[t].chunks) = 3
        /\ frame[t].outcome.kind = "returned"

NoMarker(d) == \A k \in 1..Len(chunk_patterns) : Find(d, chunk_patterns[k]) = -1

\* C7: when the stream holds no marker and the scan accepts no chunk, the
\* returned snapshot holds min(pattern_count // 10, 200) vehicles.
C7_Fallback ==
    \A t \in Threads :
        (/\ Done(t)
         /\ frame[t].exc = "none"
         /\ NoMarker(frame[t].data)
         /\ frame[t].chunks = <<>>) =>
            frame[t].outcome.value.total_vehicles = EstimatedVehicles(frame[t].data)

\* an OTTN envelope whose payload is one VEHS chunk with Byte length, followed
\* by nothing but zero padding
IsVehsByteInput(b) ==
    /\ BLen(b) >= 13
    /\ Prefix4(b) = Ottn
    /\ Plain(Slice(b, 8, 12)) = VEHS
    /\ At(b, 12) < 128
    /\ BLen(b) >= 13 + At(b, 12)
    /\ \A i \in (13 + At(b, 12))..(BLen(b) - 1) : At(b, i) = 0

DecodedStrides(n) == {k \in 0..n : 32 * k + 32 < n}

ExpectedVehicles(b) ==
    [k \in 1..Cardinality(DecodedStrides(At(b, 12))) |->
        [vehicle_id |-> k - 1,
         vehicle_type |-> At(b, 13 + 32 * (k - 1)) % 6,
         company_id |-> At(b, 14 + 32 * (k - 1)) % 16,
         engine_type |-> 0, x |-> 0, y |-> 0, z |-> 0, speed |-> 0,
         profit_this_year |-> 0, profit_last_year |-> 0, running_cost |-> 0,
         build_year |-> 1950, reliability |-> 100,
         cargo_type |-> 0, cargo_capacity |-> 0, cargo_count |-> 0]]

\* C8: an OTTN envelope whose payload is a VEHS chunk with Byte length (and
\* zero padding), parsed by a fresh parser, gives one vehicle per decoded
\* stride, with vehicle_type = first byte mod 6, company_id = second byte
\* mod 16 and the placeholder defaults; type byte 40 with stride (0, 3, ...)
\* gives exactly one vehicle, a Train of company 3.
C8_VehsChunk ==
    (Len(log) >= 1 /\ IsVehsByteInput(log[1].input)) =>
        /\ log[1].outcome.kind = "returned"
        /\ log[1].outcome.value.vehicles = ExpectedVehicles(log[1].input)
        /\ log[1].outcome.value.total_vehicles = Len(ExpectedVehicles(log[1].input))
        /\ (At(log[1].input, 12) = 40 /\ At(log[1].input, 13) = 0
               /\ At(log[1].input, 14) = 3) =>
               /\ Len(log[1].outcome.value.vehicles) = 1
               /\ log[1].outcome.value.vehicles[1].vehicle_type = 0
               /\ log[1].outcome.value.vehicles[1].company_id = 3

\* a fresh parser has returned three vehicles for a body of three strides
C8_Witness ==
    /\ Len(log) >= 1
    /\ log[1].input = InVehs100
    /\ Len(log[1].outcome.value.vehicles) = 3
    /\ log[1].outcome.value.vehicles[1].vehicle_type = 1

\* the end-to-end example has returned its single vehicle
C8_WitnessExample ==
    /\ Len(log) >= 1
    /\ log[1].input = InVehs40
    /\ Len(log[1].outcome.value.vehicles) = 1

\* a well-formed Byte-length chunk lies at offset o of d
WellFormedByteChunkAt(d, o) ==
    /\ o + 5 <= BLen(d)
    /\ IsAscii(Plain(Slice(d, o, o + 4)))
    /\ Plain(Slice(d, o, o + 4)) # <<0, 0, 0, 0>>
    /\ At(d, o + 4) < 128
    /\ o + 5 + At(d, o + 4) <= BLen(d)

\* C9: when the stream begins, at the start of the scan, with a well-formed
\* Byte-length chunk, the scanner accepts exactly one chunk for it, with
\* body_length = the type byte and body = the bytes after the 5-byte header.
C9_ByteChunk ==
    \A t \in Threads :
        (/\ Done(t)
         /\ frame[t].exc = "none"
         /\ WellFormedByteChunkAt(frame[t].data, frame[t].offset)) =>
            LET f == frame[t]
                n == At(f.data, f.offset + 4)
            IN  /\ Cardinality({i \in 1..Len(f.chunks) : f.chunks[i].at = f.offset}) = 1
                /\ Len(f.chunks) >= 1
                /\ f.chunks[1].at = f.offset
                /\ f.chunks[1].enc = "Byte"
                /\ f.chunks[1].body_length = n
                /\ SameBytes(f.chunks[1].body,
                             Slice(f.data, f.offset + 5, f.offset + 5 + n))

\* one step seen by the bounds check (C10)
C10_Step ==
    \A t \in Threads :
        LET f == frame[t]
            g == frame'[t]
            tag == Plain(Slice(f.data, f.current_offset, f.current_offset + 4))
            len == DecodeLength(f.data, f.current_offset)
        IN  /\ (g.chunks # f.chunks /\ g.chunks # <<>>) =>
                   LET c == g.chunks[Len(g.chunks)]
                   IN  /\ c.body_offset + c.body_length <= BLen(g.data)
                       /\ c.body_length <= 1000000
            /\ (/\ f.pc = "scan"
                /\ g # f
                /\ LoopCond(f.data, f.current_offset)
                /\ IsAscii(tag)
                /\ tag # <<0, 0, 0, 0>>
                /\ \/ len.data_offset + len.chunk_size > BLen(f.data)
                   \/ len.chunk_size > 1000000) =>
                   /\ g.current_offset = f.current_offset + 1
                   /\ g.pc = "scan"
                   /\ g.chunks = f.chunks
                   /\ g.invoked = f.invoked
                   /\ UNCHANGED parser

\* C10: a chunk is handed to an extractor only if body_offset + body_length
\* <= len(stream) and body_length <= 1,000,000; when either fails no extractor
\* is called, no collection changes and the offset advances by one byte.
C10_BoundsCheck == [][C10_Step]_vars

\* a chunk claiming 2,000,000 bytes, which the stream holds, has been rejected
C10_Witness ==
    \E t \in Threads :
        /\ frame[t].compressed_data = InHuge
        /\ BLen(frame[t].data) > 9 + 2000000
        /\ frame[t].pc = "scan"
        /\ frame[t].current_offset = 1
        /\ frame[t].skips = 1
        /\ frame[t].chunks = <<>>

\* the vehicle_id values of a returned vehicles sequence are pairwise distinct
DistinctIds(vs) ==
    \A i, j \in 1..Len(vs) : i # j => vs[i].vehicle_id # vs[j].vehicle_id

\* C11: within the result of a parse call (here the first call of a fresh
\* parser) no two vehicles share the same vehicle_id.
C11_UniqueIds ==
    (Len(log) >= 1 /\ log[1].outcome.value # EmptyResult) =>
        DistinctIds(log[1].outcome.value.vehicles)

\* the exception the resolver raises for input b ("none" when it returns)
ResolverExc(b) == DecompressMapData(b).exc

\* C12: an OTTD input fails with the unsupported-codec error before any
\* decompression or scan, and its outcome differs from the outcome of a call
\* whose payload the codec rejected.
C12_Distinguishable ==
    /\ \A t \in Threads :
           (Called(t) /\ BLen(frame[t].compressed_data) >= 8
               /\ Prefix4(frame[t].compressed_data) = Ottd) =>
               /\ frame[t].exc = "NotImplementedError"
               /\ frame[t].invoked = {"resolver"}
               /\ frame[t].chunks = <<>>
    /\ \A i, j \in 1..Len(log) :
           (/\ ResolverExc(log[i].input) = "NotImplementedError"
            /\ ResolverExc(log[j].input) \in {"LZMAError", "zlib.error"}) =>
               log[i].outcome # log[j].outcome

\* The result parse_map_data returns for a call that runs alone on a fresh
\* parser, from the state f of the call, the dimensions w, h and the vehicles
\* vs collected so far.
RECURSIVE RunAlone(_, _, _, _)
RunAlone(f, w, h, vs) ==
    IF f.pc = "scan" /\ LoopCond(f.data, f.current_offset)
    THEN LET after == LoopBody(f, w, h)
         IN  RunAlone(after.frame, after.map_width, after.map_height, vs)
    ELSE IF f.pc = "vehs" /\ VehLoopCond(f.chunk_data, f.veh_offset)
    THEN RunAlone([f EXCEPT !.vehicle_id = @ + 1, !.veh_offset = @ + VehicleStride],
                  w, h,
                  Append(vs, ParsedVehicle(f.vehicle_id,
                                           VType(f.chunk_data, f.veh_offset),
                                           Company(f.chunk_data, f.veh_offset))))
    ELSE IF f.pc = "vehs"
    THEN RunAlone([f EXCEPT !.pc = "scan",
                            !.current_offset = NextOffset(f.data_offset, f.chunk_size)],
                  w, h, vs)
    ELSE Snapshot(w, h, vs, <<>>, <<>>, <<>>)

AloneResult(b) ==
    LET r == DecompressMapData(b)
    IN  IF r.raised THEN OnException(r.exc)
        ELSE Return(RunAlone([NewFrame("scan") EXCEPT
                                  !.data = r.value,
                                  !.offset = StartOffset(r.value),
                                  !.current_offset = StartOffset(r.value)],
                             0, 0, <<>>))

KnownTags == {Ottx, Ottz, Ottn, Ottd}

\* input b with its 4-byte tag replaced by OTTX
AsOttx(b) == Bytes(Ottx \o SubSeq(b.head, 5, Len(b.head)), b.fill, b.pad)

\* C13: for an input of at least 8 bytes whose tag is none of OTTX, OTTZ,
\* OTTN, OTTD the resolver hands the bytes from offset 8 to LZMA; when LZMA
\* rejects them the call fails with no scan and no chunk extracted, and when
\* it accepts them the stream, the start of the walk and the result are those
\* of the same input tagged OTTX.
C13_UnknownTag ==
    /\ \A t \in Threads :
           LET f == frame[t]
               r == LzmaDecompress(From(f.compressed_data, 8))
           IN  (/\ Called(t)
                /\ BLen(f.compressed_data) >= 8
                /\ Prefix4(f.compressed_data) \notin KnownTags) =>
                   /\ r.raised =>
                          /\ f.exc = "LZMAError"
                          /\ f.invoked = {"resolver"}
                          /\ f.chunks = <<>>
                          /\ f.pc = "idle"
                          /\ f.outcome = Return(EmptyResult)
                   /\ ~r.raised =>
                          /\ f.exc = "none"
                          /\ "scanner" \in f.invoked
                          /\ SameBytes(f.data, r.value)
                          /\ f.offset = StartOffset(r.value)
                          /\ DecompressMapData(AsOttx(f.compressed_data)) = Returned(f.data)
    /\ (/\ Len(log) >= 1
        /\ BLen(log[1].input) >= 8
        /\ Prefix4(log[1].input) \notin KnownTags) =>
           log[1].outcome = AloneResult(AsOttx(log[1].input))

\* an input tagged ZZZZ has been rejected by LZMA and has given the empty
\* result, and another one has been decompressed and has given its vehicle
C13_Witness ==
    /\ Len(log) = 2
    /\ log[1].input = InUnknownOk
    /\ log[1].outcome.value # EmptyResult
    /\ log[1].outcome.value.total_vehicles = 1
    /\ log[2].input = InUnknownBad
    /\ log[2].outcome = Return(EmptyResult)

\* C14: a parse call that ran while a call of another thread was in progress
\* returns the result it returns when run alone.
C14_Isolated ==
    \A t, u \in Threads :
        (t # u /\ Done(t) /\ Running(u)) =>
            frame[t].outcome = AloneResult(frame[t].compressed_data)

\* the little-endian base-128 continuation encoding of the length n
RECURSIVE GammaEncode(_)
GammaEncode(n) ==
    IF n < 128 THEN <<n>>
    ELSE <<128 + (n % 128)>> \o GammaEncode(n \div 128)

\* the length bytes the scanner read for the Gamma chunk c of stream d
GammaBytes(d, c) == Plain(Slice(d, c.at + 5, c.body_offset))

\* C15: re-encoding the length the scanner decoded from a Gamma byte sequence
\* gives back that byte sequence.
C15_GammaRoundTrip ==
    \A t \in Threads :
        \A k \in 1..Len(frame[t].chunks) :
            LET c == frame[t].chunks[k]
            IN  c.enc = "Gamma" =>
                    GammaEncode(c.body_length) = GammaBytes(frame[t].data, c)

\* C16: when the extractor has gone through an accepted VEHS body of n bytes
\* it has appended floor(n / 32) vehicles, one per complete 32-byte stride.
C16_Strides ==
    \A t \in Threads :
        LET f == frame[t]
        IN  (f.pc = "vehs" /\ ~VehLoopCond(f.chunk_data, f.veh_offset)) =>
                f.vehicle_id = BLen(f.chunk_data) \div 32

\* a marker (VEHS, STNS, INDS, PLYR or INDY) occurs at offset i of d
MarkerAt(d, i) ==
    /\ i + 4 <= BLen(d)
    /\ \E k \in 1..Len(chunk_patterns) :
           \A j \in 0..3 : At(d, i + j) = chunk_patterns[k][j + 1]

MarkerOffsets(d) == {i \in 0..(BLen(d) - 4) : MarkerAt(d, i)}

\* C17: the chunk walk starts at the smallest offset at which a marker
\* occurs in the decompressed stream, and at offset 0 when no marker occurs.
C17_EntryPoint ==
    \A t \in Threads :
        LET f == frame[t]
            occ == MarkerOffsets(f.data)
        IN  ("scanner" \in f.invoked) =>
                /\ occ = {} => f.offset = 0
                /\ occ # {} => /\ f.offset \in occ
                               /\ \A i \in occ : f.offset <= i
                /\ f.current_offset >= f.offset
                /\ (f.pc = "scan" /\ f.skips = 0 /\ f.chunks = <<>>) =>
                       f.current_offset = f.offset
                /\ \A k \in 1..Len(f.chunks) : f.chunks[k].at >= f.offset

\* a walk has started at PLYR, the earliest marker, three bytes into a stream
\* that also holds VEHS
C17_Witness ==
    \E t \in Threads :
        /\ frame[t].compressed_data = InJunkFirst
        /\ frame[t].pc = "scan"
        /\ frame[t].offset = 3
        /\ frame[t].current_offset = 3
        /\ MarkerOffsets(frame[t].data) = {3, 8}

\* the 4 bytes at offset o of d are all zero / hold a byte that is not ASCII
ZeroTagAt(d, o) == \A j \in 0..3 : At(d, o + j) = 0
NonAsciiTagAt(d, o) == \E j \in 0..3 : At(d, o + j) >= 128

\* one step seen from the tag checks (C18)
C18_Step ==
    \A t \in Threads :
        LET f == frame[t]
            g == frame'[t]
        IN  /\ (/\ f.pc = "scan" /\ g # f
                /\ LoopCond(f.data, f.current_offset)
                /\ ZeroTagAt(f.data, f.current_offset)) =>
                   /\ g = [f EXCEPT !.pc = "ret"]
                   /\ UNCHANGED parser
            /\ (/\ f.pc = "scan" /\ g # f
                /\ LoopCond(f.data, f.current_offset)
                /\ NonAsciiTagAt(f.data, f.current_offset)) =>
                   /\ g = [f EXCEPT !.current_offset = @ + 1, !.skips = @ + 1]
                   /\ UNCHANGED parser
            /\ (f.pc = "ret" /\ g # f) =>
                   /\ g.pc = "idle"
                   /\ g.chunks = f.chunks
                   /\ UNCHANGED parser

\* a Byte-length chunk that follows a non-ASCII byte at the start of the walk,
\* at an offset the loop examines, has been extracted when the call returns
C18_ChunkAfterNonAscii ==
    \A t \in Threads :
        LET f == frame[t]
        IN  (/\ Done(t) /\ f.exc = "none"
             /\ BLen(f.data) > f.offset + 1
             /\ At(f.data, f.offset) >= 128
             /\ LoopCond(f.data, f.offset + 1)
             /\ WellFormedByteChunkAt(f.data, f.offset + 1)) =>
                \E k \in 1..Len(f.chunks) :
                    /\ f.chunks[k].at = f.offset + 1
                    /\ f.chunks[k].body_length = At(f.data, f.offset + 5)

\* C18: in the loop of the scan an all-zero tag stops the scan at once (the
\* call returns without another chunk), a tag holding a byte >= 0x80 moves
\* the offset by exactly one byte with no extractor called and no collection
\* changed, and a chunk right after a non-ASCII byte is extracted.
C18_TagChecks ==
    /\ [][C18_Step]_vars
    /\ []C18_ChunkAfterNonAscii

\* a MAP chunk behind a non-ASCII byte has been extracted, and a scan has
\* stopped at an all-zero tag followed by a VEHS chunk
C18_Witness ==
    /\ Len(log) = 2
    /\ log[1].input = InNonAsciiMap
    /\ log[1].outcome.value.map_width = 5
    /\ log[1].outcome.value.map_height = 6
    /\ log[2].input = InZeroTag
    /\ log[2].outcome.value.total_vehicles = 0
    /\ Len(frame[1].chunks) = 1
    /\ frame[1].current_offset = 5

\* the offsets, from p on, of the bytes of d whose high bit is clear
ClearFrom(d, p) == {q \in p..(BLen(d) - 1) : At(d, q) < 128}

\* sum over i in 0..n-1 of (low 7 bits of d[p + i]) shifted left by 7 * i
RECURSIVE GammaSum(_, _, _)
GammaSum(d, p, n) ==
    IF n = 0 THEN 0
    ELSE GammaSum(d, p, n - 1) + (At(d, p + n - 1) % 128) * (2 ^ (7 * (n - 1)))

\* C19: for an accepted chunk whose type byte has its high bit set and is not
\* 0xFF, the length bytes are the bytes after the type byte up to the first
\* one whose high bit is clear, the body starts right after that byte and
\* the body length is the sum of their low 7 bits shifted left by 7 * i.
C19_GammaDecode ==
    \A t \in Threads :
        \A k \in 1..Len(frame[t].chunks) :
            LET d == frame[t].data
                c == frame[t].chunks[k]
                first == c.at + 5
                clear == ClearFrom(d, first)
            IN  (At(d, c.at + 4) >= 128 /\ At(d, c.at + 4) # 255) =>
                    /\ clear # {}
                    /\ \A q \in clear :
                           (\A r \in clear : q <= r) =>
                               /\ c.body_offset = q + 1
                               /\ c.body_length = GammaSum(d, first, q + 1 - first)

LastChunk(f) == f.chunks[Len(f.chunks)]

\* one step seen from the dispatch of an accepted chunk (C20)
C20_Step ==
    /\ \A t \in Threads :
           LET f == frame[t]
               g == frame'[t]
           IN  (g.chunks # f.chunks /\ g.chunks # <<>>
                   /\ LastChunk(g).tag \notin {VEHS, MAP_}) =>
                   /\ UNCHANGED parser
                   /\ g.pc = "scan"
    /\ vehicles' # vehicles =>
           \E t \in Threads :
               /\ frame[t].pc = "vehs"
               /\ LastChunk(frame[t]).tag = VEHS
               /\ frame'[t] # frame[t]
    /\ <<map_width', map_height'>> # <<map_width, map_height>> =>
           \E t \in Threads :
               /\ frame'[t].chunks # frame[t].chunks
               /\ LastChunk(frame'[t]).tag = MAP_
    /\ UNCHANGED <<stations, industries, companies>>

\* the placeholder collections are empty, in the parser and in every result
C20_Empty ==
    /\ stations = <<>> /\ industries = <<>> /\ companies = <<>>
    /\ \A i \in 1..Len(log) :
           log[i].outcome.value # EmptyResult =>
               /\ log[i].outcome.value.stations = <<>>
               /\ log[i].outcome.value.industries = <<>>
               /\ log[i].outcome.value.companies = <<>>
               /\ log[i].outcome.value.total_stations = 0
               /\ log[i].outcome.value.total_industries = 0
               /\ log[i].outcome.value.total_companies = 0

\* C20: an accepted chunk tagged STNS, INDS, PLYR or with an unrecognised tag
\* changes no field of the parser; the vehicle list changes only while a VEHS
\* chunk is extracted and the map dimensions only when a 'MAP ' chunk is
\* accepted; stations, industries and companies stay empty, their totals 0.
C20_DispatchFrame ==
    /\ [][C20_Step]_vars
    /\ []C20_Empty

\* STNS, PLYR and empty VEHS chunks and then a chunk tagged XYZW with a body
\* of 8 bytes have been accepted, and no field of the parser has changed
C20_Witness ==
    /\ Len(log) = 2
    /\ log[1].input = InEmptyChunks
    /\ log[2].input = InUnhandled
    /\ Len(frame[1].chunks) = 1
    /\ LastChunk(frame[1]).tag = <<88, 89, 90, 87>>
    /\ LastChunk(frame[1]).body_length = 8
    /\ log[2].outcome.value.total_vehicles = 0
    /\ log[2].outcome.value.total_stations = 0
    /\ parser = <<0, 0, <<>>, <<>>, <<>>, <<>>>>

\* the little-endian 32-bit value of the 4 bytes of d at offset o
Word(d, o) ==
    At(d, o) + At(d, o + 1) * 256 + At(d, o + 2) * 256 * 256
        + At(d, o + 3) * 256 * 256 * 256

\* one step seen from the map extractor (C21)
C21_Step ==
    \A t \in Threads :
        LET f == frame[t]
            g == frame'[t]
        IN  (g.chunks # f.chunks /\ g.chunks # <<>> /\ LastChunk(g).tag = MAP_) =>
                LET c == LastChunk(g)
                IN  /\ c.body_length >= 8 =>
                           /\ map_width' = Word(g.data, c.body_offset)
                           /\ map_height' = Word(g.data, c.body_offset + 4)
                    /\ c.body_length < 8 =>
                           /\ map_width' = map_width
                           /\ map_height' = map_height

\* a 'MAP ' chunk with a body of at least 8 bytes is among the chunks of f
HasFullMapChunk(f) ==
    \E k \in 1..Len(f.chunks) :
        f.chunks[k].tag = MAP_ /\ f.chunks[k].body_length >= 8

\* the dimensions are zero until a MAP chunk sets them
C21_ZeroUntilSet ==
    (Len(log) = 0 /\ \A t \in Threads : ~HasFullMapChunk(frame[t])) =>
        map_width = 0 /\ map_height = 0

\* C21: an accepted 'MAP ' chunk with a body of at least 8 bytes sets
\* map_width to the little-endian 32-bit value of body bytes 0..3 and
\* map_height to that of bytes 4..7; with a shorter body both keep their
\* prior values, zero if no MAP chunk has set them.
C21_MapChunk ==
    /\ [][C21_Step]_vars
    /\ []C21_ZeroUntilSet

\* a MAP chunk has set the dimensions to 64 x 32 and a later MAP chunk with a
\* body of 4 bytes has left them there
C21_Witness ==
    /\ Len(log) = 2
    /\ log[1].input = InMap
    /\ log[1].outcome.value.map_width = 64
    /\ log[1].outcome.value.map_height = 32
    /\ log[2].input = InMapShort
    /\ Len(frame[1].chunks) >= 1
    /\ frame[1].chunks[1].tag = MAP_
    /\ frame[1].chunks[1].body_length = 4
    /\ log[2].outcome.value.map_width = 64
    /\ log[2].outcome.value.map_height = 32

\* envelope resolution fails for input b: b is shorter than 8 bytes, tagged
\* OTTD, or its payload is rejected by the codec its tag selects
ResolutionFails(b) ==
    \/ BLen(b) < 8
    \/ /\ BLen(b) >= 8
       /\ \/ Prefix4(b) = Ottd
          \/ Prefix4(b) = Ottz /\ ZlibDecompress(From(b, 8)).raised
          \/ Prefix4(b) \notin {Ottd, Ottz, Ottn} /\ LzmaDecompress(From(b, 8)).raised

\* one step seen from a call whose envelope resolution fails (C22)
C22_Step ==
    \A t \in Threads :
        LET f == frame[t]
            g == frame'[t]
        IN  (f.pc = "idle" /\ g # f /\ ResolutionFails(g.compressed_data)) =>
                /\ UNCHANGED parser
                /\ g.pc = "idle"
                /\ g.outcome = Return(EmptyResult)
                /\ g.chunks = <<>>
                /\ log' = Append(log, [input |-> g.compressed_data,
                                        outcome |-> Return(EmptyResult)])

\* every call whose envelope resolution failed returned the empty result
C22_EmptyResults ==
    \A i \in 1..Len(log) :
        ResolutionFails(log[i].input) => log[i].outcome = Return(EmptyResult)

\* C22: a parse call that fails in envelope resolution (input shorter than 8
\* bytes, OTTD tag, payload rejected by the codec) returns the empty result,
\* never a snapshot, and leaves vehicles, stations, industries, companies,
\* map_width and map_height as they were before the call.
C22_FailedResolution ==
    /\ [][C22_Step]_vars
    /\ []C22_EmptyResults

\* after a call that collected a vehicle, a call with an OTTD input has
\* returned the empty result and the parser still holds that vehicle
C22_Witness ==
    /\ Len(log) = 2
    /\ log[1].input = InVehs40
    /\ log[1].outcome.value.total_vehicles = 1
    /\ log[2].input = InOttd
    /\ log[2].outcome = Return(EmptyResult)
    /\ Len(vehicles) = 1
    /\ frame[1].pc = "idle"
    /\ frame[1].exc = "NotImplementedError"

\* the smallest offset of d at which a marker occurs (d holds a marker)
FirstMarker(d) ==
    LET occ == MarkerOffsets(d)
    IN  CHOOSE i \in occ : \A j \in occ : i <= j

\* the offsets of d at which the tag 'MAP ' and a Byte length stand.  A
\* window that starts in the padding holds four equal bytes, so the tag
\* starts in `head`.
MapTagOffsets(d) ==
    {o \in 0..Min(BLen(d) - 5, Len(d.head) - 1) :
        /\ \A j \in 0..3 : At(d, o + j) = MAP_[j + 1]
        /\ At(d, o + 4) < 128}

\* the offsets of the well-formed 'MAP ' chunks of d, with Byte length, that
\* end at or before the earliest marker
MapChunksBefore(d) ==
    IF MapTagOffsets(d) = {} \/ MarkerOffsets(d) = {} THEN {}
    ELSE LET first == FirstMarker(d)
         IN  {o \in MapTagOffsets(d) : o + 5 + At(d, o + 4) <= first}

\* frame t holds the first call made on the parser, whose scan has started
FirstCall(t) ==
    /\ Called(t)
    /\ frame[t].exc = "none"
    /\ Len(log) = 0 \/ (Len(log) = 1 /\ Done(t))

\* C23 as stated: a well-formed 'MAP ' chunk that lies entirely before the
\* earliest marker is never handed to the map extractor, and map_width and
\* map_height stay at their prior values for that call (0 for the first call
\* on a parser).
C23_AsStated ==
    \A t \in Threads :
        LET f == frame[t]
        IN  (FirstCall(t) /\ MapChunksBefore(f.data) # {}) =>
                /\ \A k \in 1..Len(f.chunks) :
                       f.chunks[k].at \notin MapChunksBefore(f.data)
                /\ map_width = 0
                /\ map_height = 0

\* no chunk before the earliest marker is handed to an extractor, and the
\* first call leaves the dimensions at 0 unless it accepts a MAP chunk
C23_NeverHanded ==
    \A t \in Threads :
        LET f == frame[t]
        IN  (Called(t) /\ f.exc = "none" /\ MapChunksBefore(f.data) # {}) =>
                /\ f.offset = FirstMarker(f.data)
                /\ f.current_offset >= FirstMarker(f.data)
                /\ \A k \in 1..Len(f.chunks) :
                       /\ f.chunks[k].at >= FirstMarker(f.data)
                       /\ f.chunks[k].at \notin MapChunksBefore(f.data)
                /\ (FirstCall(t) /\ \A u \in Threads : ~HasFullMapChunk(frame[u])) =>
                       map_width = 0 /\ map_height = 0

\* one step of a call whose stream holds a MAP chunk before the earliest marker
C23_Step ==
    \A t \in Threads :
        LET f == frame[t]
            g == frame'[t]
        IN  (f.pc \in {"scan", "vehs"} /\ g # f /\ MapChunksBefore(f.data) # {}) =>
                /\ g.current_offset >= f.current_offset
                /\ <<map_width', map_height'>> # <<map_width, map_height>> =>
                       \E u \in Threads :
                           /\ frame'[u].chunks # frame[u].chunks
                           /\ LastChunk(frame'[u]).tag = MAP_
                           /\ LastChunk(frame'[u]).at >= frame[u].offset
                           /\ u = t => LastChunk(g).at >= FirstMarker(f.data)

\* C23, amended: a well-formed 'MAP ' chunk that lies entirely before the
\* earliest marker is never handed to the map extractor, because the walk
\* starts at that marker and the scan offset only increases; map_width and
\* map_height are changed during that call only by a 'MAP ' chunk accepted at
\* or after that marker.
C23_MapBeforeMarker ==
    /\ [][C23_Step]_vars
    /\ []C23_NeverHanded

\* the first call has returned for a stream with a MAP chunk of 64 x 32
\* before its VEHS marker: only the VEHS chunk was handed over, the
\* dimensions are still 0
C23_Witness ==
    /\ Len(log) = 1
    /\ log[1].input = InMapFirst
    /\ MapChunksBefore(frame[1].data) = {0}
    /\ FirstMarker(frame[1].data) = 13
    /\ Len(frame[1].chunks) = 1
    /\ frame[1].chunks[1].tag = VEHS
    /\ log[1].outcome.value.map_width = 0
    /\ log[1].outcome.value.map_height = 0
    /\ log[1].outcome.value.total_vehicles = 1

====
